---- MODULE Spec2Model ----
(***************************************************************************)
(* train/utils.py: the TrainingProgress tracker (running sums turned into  *)
(* means, checkpoint on improved validation loss) and train_epoch, the     *)
(* driver of one training pass followed by an optional validation pass.    *)
(*                                                                         *)
(* Python numbers are modelled as exact rationals <<n, d>> in lowest terms *)
(* with d > 0.  An optional value is None (the empty tuple) or Some(v).    *)
(***************************************************************************)
EXTENDS Integers, Sequences, FiniteSets, TLC

\* ------------------------------------------------------------------ bounds
\* Longest history of state-changing tracker calls explored since the phases
\* were last reset (all trackers and phases together).
MaxLog == 3
\* Longest batch iterator handed to train_epoch, largest num_batches passed
\* to finish_epoch directly.
MaxBatches == 2

\* ------------------------------------------------------- program constants
\* default of the best_validation_loss parameter (1e6)
DefaultBest == 1000000

\* ----------------------------------------------------------------- numbers
Abs(x) == IF x < 0 THEN -x ELSE x

RECURSIVE Gcd(_, _)
Gcd(a, b) == IF b = 0 THEN a ELSE Gcd(b, a % b)

\* the rational n/d (d > 0) in lowest terms
Rat(n, d) == LET g == Gcd(Abs(n), d) IN <<n \div g, d \div g>>

Num(k) == <<k, 1>>

\* class-level default of the four accumulators
Zero == Num(0)

\* x + y, as in `acc += v`
Add(x, y) == Rat(x[1] * y[2] + y[1] * x[2], x[2] * y[2])

\* x / k for an integer k > 0, as in `acc /= num_batches`
Div(x, k) == Rat(x[1], x[2] * k)

\* x < y
Less(x, y) == x[1] * y[2] < y[1] * x[2]

\* mutant: the nearest integer, halves upwards
int_nearest(x) == (2 * x[1] + x[2]) \div (2 * x[2])

\* int(x): truncation toward zero
int(x) == IF x[1] >= 0 THEN x[1] \div x[2] ELSE -((-x[1]) \div x[2])

None == <<>>
Some(v) == <<v>>
Val(o) == o[1]

\* ------------------------------------------------------------ the tracker
Trackers == {"A", "B"}

AccNames ==
    {"average_training_loss", "average_validation_loss",
     "average_training_acc", "average_validation_acc"}

LossName(train) ==
    IF train THEN "average_training_loss" ELSE "average_validation_loss"

AccName(train) ==
    IF train THEN "average_training_acc" ELSE "average_validation_acc"

\* the attributes of the class object TrainingProgress
ClassDefaults == [a \in AccNames |-> Zero]

\* TrainingProgress(epoch, track_accuracy, best_validation_loss): __init__
\* binds three instance attributes; the accumulators are not in the
\* instance's dictionary until a method assigns them
__init__(epoch, track_accuracy, best_validation_loss) ==
    [epoch |-> epoch,
     track_accuracy |-> track_accuracy,
     best_validation_loss |-> best_validation_loss,
     dict |-> [a \in {} |-> Zero]]

\* A heap h is [cls |-> class attributes, self |-> one instance].
\* self.name: the instance's attribute if it has one, else the class's
getattr(h, name) ==
    IF name \in DOMAIN h.self.dict THEN h.self.dict[name] ELSE h.cls[name]

\* the store of the mutant: an accumulator is a field shared by all trackers
setattr_shared(h, name, v) ==
    [h EXCEPT !.cls = [a \in AccNames |-> IF a = name THEN v ELSE h.cls[a]]]

\* self.name = v: binds the attribute in the instance's dictionary
setattr(h, name, v) ==
    [h EXCEPT !.self.dict =
        [a \in (DOMAIN h.self.dict) \cup {name} |->
            IF a = name THEN v ELSE h.self.dict[a]]]

\* what a method call leaves behind: the heap, the exception it raised
\* ("none" when it returned) and the checkpoints it wrote
Result(h, exc, saved) == [h |-> h, exc |-> exc, saved |-> saved]

\* the name torch.save writes to: "epoch-%d-%d.pt" % (epoch, int(acc))
CheckpointName(epoch, acc) == [epoch |-> epoch, acc |-> int(acc)]

\* mutant: the accuracy is added whether or not it is tracked
update_progress_untracked(h, train, epoch, loss, acc) ==
    LET h1 == [h EXCEPT !.self.epoch = epoch]
        h2 == setattr(h1, LossName(train), Add(getattr(h1, LossName(train)), loss))
    IN  IF acc = None
        THEN Result(h2, "TypeError", <<>>)
        ELSE Result(setattr(h2, AccName(train),
                            Add(getattr(h2, AccName(train)), Val(acc))),
                    "none", <<>>)

\* mutant: the loss is stored instead of added
update_progress_overwrite(h, train, epoch, loss, acc) ==
    LET h1 == [h EXCEPT !.self.epoch = epoch]
        h2 == setattr(h1, LossName(train), loss)
    IN  IF ~h1.self.track_accuracy
        THEN Result(h2, "none", <<>>)
        ELSE IF acc = None
             THEN Result(h2, "TypeError", <<>>)
             ELSE Result(setattr(h2, AccName(train),
                                 Add(getattr(h2, AccName(train)), Val(acc))),
                         "none", <<>>)

\* TrainingProgress.update_progress(train, epoch, loss, acc=None)
update_progress(h, train, epoch, loss, acc) ==
    LET h1 == [h EXCEPT !.self.epoch = epoch]
        h2 == setattr(h1, LossName(train), Add(getattr(h1, LossName(train)), loss))
    IN  IF ~h1.self.track_accuracy
        THEN Result(h2, "none", <<>>)
        ELSE IF acc = None
             \* number += None
             THEN Result(h2, "TypeError", <<>>)
             ELSE Result(setattr(h2, AccName(train),
                                 Add(getattr(h2, AccName(train)), Val(acc))),
                         "none", <<>>)

\* TrainingProgress.start_epoch(train)
start_epoch(h, train) ==
    LET h1 == setattr(h, AccName(train), Zero)
    IN  Result(setattr(h1, LossName(train), Zero), "none", <<>>)

\* mutant: checkpoint when the new mean is not greater than the best
finish_epoch_not_strict(h, train, epoch, num_batches) ==
    LET h1 == [h EXCEPT !.self.epoch = epoch]
    IN  IF num_batches = 0
        THEN Result(h1, "ZeroDivisionError", <<>>)
        ELSE LET h2 == setattr(h1, AccName(train),
                               Div(getattr(h1, AccName(train)), num_batches))
                 h3 == setattr(h2, LossName(train),
                               Div(getattr(h2, LossName(train)), num_batches))
                 mean == getattr(h3, LossName(FALSE))
             IN  IF train \/ Less(h3.self.best_validation_loss, mean)
                 THEN Result(h3, "none", <<>>)
                 ELSE Result([h3 EXCEPT !.self.best_validation_loss = mean],
                             "none",
                             <<CheckpointName(h3.self.epoch,
                                              getattr(h3, AccName(FALSE)))>>)

\* mutant: a zero num_batches leaves the sums as they are
finish_epoch_unguarded(h, train, epoch, num_batches) ==
    LET h1 == [h EXCEPT !.self.epoch = epoch]
        k  == IF num_batches = 0 THEN 1 ELSE num_batches
        h2 == setattr(h1, AccName(train), Div(getattr(h1, AccName(train)), k))
        h3 == setattr(h2, LossName(train), Div(getattr(h2, LossName(train)), k))
        mean == getattr(h3, LossName(FALSE))
    IN  IF train \/ ~Less(mean, h3.self.best_validation_loss)
        THEN Result(h3, "none", <<>>)
        ELSE Result([h3 EXCEPT !.self.best_validation_loss = mean],
                    "none",
                    <<CheckpointName(h3.self.epoch, getattr(h3, AccName(FALSE)))>>)

\* mutant: the checkpoint decision is taken in the training phase as well
finish_epoch_any_phase(h, train, epoch, num_batches) ==
    LET h1 == [h EXCEPT !.self.epoch = epoch]
    IN  IF num_batches = 0
        THEN Result(h1, "ZeroDivisionError", <<>>)
        ELSE LET h2 == setattr(h1, AccName(train),
                               Div(getattr(h1, AccName(train)), num_batches))
                 h3 == setattr(h2, LossName(train),
                               Div(getattr(h2, LossName(train)), num_batches))
                 mean == getattr(h3, LossName(train))
             IN  IF ~Less(mean, h3.self.best_validation_loss)
                 THEN Result(h3, "none", <<>>)
                 ELSE Result([h3 EXCEPT !.self.best_validation_loss = mean],
                             "none",
                             <<CheckpointName(h3.self.epoch,
                                              getattr(h3, AccName(train)))>>)

\* TrainingProgress.finish_epoch(train, epoch, model, num_batches); the model
\* is opaque, only the fact and the name of the write are kept
finish_epoch(h, train, epoch, num_batches) ==
    LET h1 == [h EXCEPT !.self.epoch = epoch]
    IN  IF num_batches = 0
        \* the first `/=` raises before anything is assigned
        THEN Result(h1, "ZeroDivisionError", <<>>)
        ELSE LET h2 == setattr(h1, AccName(train),
                               Div(getattr(h1, AccName(train)), num_batches))
                 h3 == setattr(h2, LossName(train),
                               Div(getattr(h2, LossName(train)), num_batches))
                 mean == getattr(h3, LossName(FALSE))
             IN  IF train \/ ~Less(mean, h3.self.best_validation_loss)
                 THEN Result(h3, "none", <<>>)
                 ELSE Result([h3 EXCEPT !.self.best_validation_loss = mean],
                             "none",
                             <<CheckpointName(h3.self.epoch,
                                              getattr(h3, AccName(FALSE)))>>)

\* ---------------------------------------------------------------- the state
VARIABLES
    cls,        \* attributes of the class TrainingProgress
    obj,        \* obj[t]: the instance t
    exc,        \* exception raised by the most recent call ("none": it returned)
    saved,      \* checkpoint names written by the most recent call
    last,       \* the most recent operation: method (or driver step) and arguments
    \* history of the trackers that are called directly
    opened,     \* opened[t][train]: start_epoch called, no finish_epoch since
    log,        \* log[t][train]: the calls that changed the phase's accumulators
                \* since its last start_epoch (or the construction of t)
    initBest,   \* initBest[t]: best_validation_loss given at construction
    valMin,     \* valMin[t]: least mean validation loss computed on t so far
    \* train_epoch
    pc,         \* position of train_epoch ("idle": no call in progress)
    frame,      \* arguments and loop index of the train_epoch call, and what
                \* the tracker held when it was made
    mode,       \* mode of the model: "unset", "train" or "eval"
    trace       \* what the train_epoch call has done so far

histVars == <<opened, log, initBest, valMin>>
driverVars == <<pc, frame, mode, trace>>
vars == <<cls, obj, exc, saved, last, opened, log, initBest, valMin,
          pc, frame, mode, trace>>

\* ------------------------------------------------------------------ inputs
Epochs == {0, 1}

\* (loss, acc) of one batch as handed to update_progress
Samples(track_accuracy) ==
    IF track_accuracy
    THEN {<<Num(1), Some(Num(2))>>, <<Num(2), Some(Num(1))>>}
    ELSE {<<Num(1), None>>, <<Num(2), None>>}

\* best_validation_loss at construction: the default, or a resumed value
InitialBests == {Num(DefaultBest), Num(1)}

\* num_batches handed to finish_epoch directly
BatchCounts == 0..MaxBatches

Heap(t) == [cls |-> cls, self |-> obj[t]]

\* self.name as the program would read it on instance t
Get(t, name) == getattr(Heap(t), name)

Call(op, t, train, epoch, n) ==
    [op |-> op, t |-> t, train |-> train, epoch |-> epoch, n |-> n]

BatchEvent(loss, acc) == [kind |-> "batch", loss |-> loss, acc |-> acc, n |-> 0]
FinishEvent(n) == [kind |-> "finish", loss |-> Zero, acc |-> None, n |-> n]

RMin(o, x) == IF o = None \/ Less(x, Val(o)) THEN Some(x) ELSE o

TotalLog ==
    Len(log["A"][TRUE]) + Len(log["A"][FALSE])
    + Len(log["B"][TRUE]) + Len(log["B"][FALSE])

\* the effect of a method call on instance t
Commit(t, r, call) ==
    /\ cls' = r.h.cls
    /\ obj' = [obj EXCEPT ![t] = r.h.self]
    /\ exc' = r.exc
    /\ saved' = r.saved
    /\ last' = call

\* ------------------------------------------------------------ tracker calls
\* t.start_epoch(train)
StartEpochCall(t, train) ==
    Commit(t, start_epoch(Heap(t), train), Call("start_epoch", t, train, obj[t].epoch, 0))

\* t.update_progress(train, epoch, loss, acc)
UpdateProgressCall(t, train, epoch, loss, acc) ==
    Commit(t, update_progress(Heap(t), train, epoch, loss, acc),
           Call("update_progress", t, train, epoch, 0))

\* t.finish_epoch(train, epoch, model, num_batches)
FinishEpochCall(t, train, epoch, num_batches) ==
    Commit(t, finish_epoch(Heap(t), train, epoch, num_batches),
           Call("finish_epoch", t, train, epoch, num_batches))

\* t = TrainingProgress(epoch, track_accuracy, best_validation_loss)
ConstructCall(t, epoch, track_accuracy, best_validation_loss) ==
    /\ obj' = [obj EXCEPT ![t] = __init__(epoch, track_accuracy, best_validation_loss)]
    /\ exc' = "none"
    /\ saved' = <<>>
    /\ last' = Call("__init__", t, TRUE, epoch, 0)
    /\ UNCHANGED cls

\* the same calls, with the history of the phase kept
Started(t, train) ==
    /\ StartEpochCall(t, train)
    /\ opened' = [opened EXCEPT ![t][train] = TRUE]
    /\ log' = [log EXCEPT ![t][train] = <<>>]
    /\ UNCHANGED <<initBest, valMin>>

Recorded(t, train, epoch, loss, acc) ==
    /\ UpdateProgressCall(t, train, epoch, loss, acc)
    /\ log' = [log EXCEPT ![t][train] = Append(@, BatchEvent(loss, acc))]
    /\ UNCHANGED <<opened, initBest, valMin>>

Finished(t, train, epoch, num_batches) ==
    /\ FinishEpochCall(t, train, epoch, num_batches)
    /\ IF exc' = "none"
       THEN /\ opened' = [opened EXCEPT ![t][train] = FALSE]
            /\ log' = [log EXCEPT ![t][train] = Append(@, FinishEvent(num_batches))]
            /\ valMin' = IF train THEN valMin
                         ELSE [valMin EXCEPT ![t] =
                                RMin(@, getattr([cls |-> cls', self |-> obj'[t]],
                                                LossName(FALSE)))]
       ELSE UNCHANGED <<opened, log, valMin>>
    /\ UNCHANGED initBest

Constructed(t, epoch, track_accuracy, best_validation_loss) ==
    /\ ConstructCall(t, epoch, track_accuracy, best_validation_loss)
    /\ opened' = [opened EXCEPT ![t] = [b \in BOOLEAN |-> FALSE]]
    /\ log' = [log EXCEPT ![t] = [b \in BOOLEAN |-> <<>>]]
    /\ initBest' = [initBest EXCEPT ![t] = best_validation_loss]
    /\ valMin' = [valMin EXCEPT ![t] = None]

\* no call of train_epoch yet; the caller's first epoch is 0
IdleFrame ==
    [epoch |-> -1, train_iterator |-> <<>>, valid_iterator |-> None,
     progress |-> None, i |-> 0, entry |-> <<Zero, Zero, Zero>>]

DriverIdle ==
    /\ pc = "idle"
    /\ frame = IdleFrame
    /\ mode = "unset"
    /\ trace = <<>>

\* the state after the trackers were constructed with the given arguments
InitWith(ctor) ==
    /\ cls = ClassDefaults
    /\ obj = [t \in Trackers |->
                __init__(0, ctor[t].track_accuracy, ctor[t].best_validation_loss)]
    /\ exc = "none"
    /\ saved = <<>>
    /\ last = Call("__init__", "A", TRUE, 0, 0)
    /\ opened = [t \in Trackers |-> [b \in BOOLEAN |-> FALSE]]
    /\ log = [t \in Trackers |-> [b \in BOOLEAN |-> <<>>]]
    /\ initBest = [t \in Trackers |-> ctor[t].best_validation_loss]
    /\ valMin = [t \in Trackers |-> None]
    /\ DriverIdle

CtorArgs(bests) == [track_accuracy : BOOLEAN, best_validation_loss : bests]

DefaultCtor == [track_accuracy |-> TRUE, best_validation_loss |-> Num(DefaultBest)]

\* ------------------------------------------- one tracker, called directly
\* Tracker A, built with the default best loss, is called in any order; the
\* exploration is cut where the phases' histories reach MaxLog calls, and a
\* phase that was finished is started again before it is touched again.
Init ==
    \E a \in CtorArgs({Num(DefaultBest)}) :
        InitWith([t \in Trackers |-> IF t = "A" THEN a ELSE DefaultCtor])

Unfinished(t, train) ==
    \A i \in 1..Len(log[t][train]) : log[t][train][i].kind = "batch"

StartPhase ==
    /\ \E train \in BOOLEAN : Started("A", train)
    /\ UNCHANGED driverVars

RecordBatch ==
    /\ TotalLog < MaxLog
    /\ \E train \in BOOLEAN, epoch \in Epochs, s \in Samples(obj["A"].track_accuracy) :
            /\ Unfinished("A", train)
            /\ Recorded("A", train, epoch, s[1], s[2])
    /\ UNCHANGED driverVars

FinishPhase ==
    /\ \E train \in BOOLEAN, epoch \in Epochs, n \in BatchCounts :
            /\ n > 0 => TotalLog < MaxLog /\ Unfinished("A", train)
            /\ Finished("A", train, epoch, n)
    /\ UNCHANGED driverVars

Next == StartPhase \/ RecordBatch \/ FinishPhase

Spec == Init /\ [][Next]_vars

\* ------------------------------------------- properties of the one tracker
Best == obj["A"].best_validation_loss
Loss(train) == Get("A", LossName(train))
Acc(train) == Get("A", AccName(train))

FinishReturned(train) ==
    /\ last.op = "finish_epoch"
    /\ last.train = train
    /\ exc = "none"

RECURSIVE SumLoss(_)
SumLoss(events) ==
    IF events = <<>> THEN Zero
    ELSE Add(SumLoss(Tail(events)), Head(events).loss)

RECURSIVE SumAcc(_)
SumAcc(events) ==
    IF events = <<>> THEN Zero
    ELSE Add(SumAcc(Tail(events)), Val(Head(events).acc))

\* C1: a validation finish_epoch that returns writes a checkpoint exactly when
\* the mean validation loss it computed is strictly less than the best loss
\* stored before the call: then it writes once and the best becomes that mean;
\* otherwise (equal or greater) it writes nothing and the best is unchanged.
C1_WriteIffStrictlyBetter ==
    [][FinishReturned(FALSE)' =>
        IF Less(Loss(FALSE)', Best)
        THEN Len(saved') = 1 /\ Best' = Loss(FALSE)'
        ELSE saved' = <<>> /\ Best' = Best]_vars

\* the validation phase of losses [1, 1] repeated: the best is 1 from the
\* first pass, the second pass computes 1 again and writes nothing
C1_Witness ==
    /\ FinishReturned(FALSE)
    /\ last.n = 2
    /\ log["A"][FALSE] = <<BatchEvent(Num(1), None), BatchEvent(Num(1), None),
                           FinishEvent(2)>>
    /\ initBest["A"] = Num(DefaultBest)
    /\ Best = Num(1)
    /\ Loss(FALSE) = Num(1)
    /\ saved = <<>>

\* C2: a phase opened with start_epoch in which n >= 1 batches were recorded
\* and that is finished with num_batches = n leaves (L1 + ... + Ln) / n in its
\* loss accumulator, and the mean of the accuracies in its accuracy
\* accumulator when accuracy is tracked, whatever they held before.
C2_MeanOfRecorded ==
    [][\A train \in BOOLEAN :
        (/\ FinishReturned(train)'
         /\ opened["A"][train]
         /\ Unfinished("A", train)
         /\ Len(log["A"][train]) >= 1
         /\ last'.n = Len(log["A"][train]))
        => /\ Loss(train)' = Div(SumLoss(log["A"][train]), last'.n)
           /\ obj["A"].track_accuracy
                => Acc(train)' = Div(SumAcc(log["A"][train]), last'.n)]_vars

\* a second validation phase, losses [2, 2], after one whose mean was 1
C2_Witness ==
    /\ FinishReturned(FALSE)
    /\ obj["A"].track_accuracy
    /\ log["A"][FALSE] = <<BatchEvent(Num(2), Some(Num(1))),
                           BatchEvent(Num(2), Some(Num(1))), FinishEvent(2)>>
    /\ valMin["A"] = Some(Num(1))
    /\ Loss(FALSE) = Num(2)
    /\ Acc(FALSE) = Num(1)

\* C4: on a tracker built with track_accuracy = False both accuracy
\* accumulators read zero after every call, and no call fails for the lack of
\* an accuracy.
C4_UntrackedAccuracyZero ==
    ~obj["A"].track_accuracy =>
        /\ Acc(TRUE) = Zero
        /\ Acc(FALSE) = Zero
        /\ exc # "TypeError"

C4_Witness ==
    /\ ~obj["A"].track_accuracy
    /\ FinishReturned(TRUE)
    /\ last.n = 2
    /\ Loss(TRUE) = <<3, 2>>
    /\ "average_training_acc" \in DOMAIN obj["A"].dict
    /\ Acc(TRUE) = Zero

\* the integer nearest to x (x >= 0), halves to the even neighbour
round(x) ==
    LET k == x[1] \div x[2]
        twice == 2 * (x[1] - k * x[2])
    IN  IF twice < x[2] THEN k
        ELSE IF twice > x[2] THEN k + 1
        ELSE IF k % 2 = 0 THEN k ELSE k + 1

BestIsMin ==
    Best = IF valMin["A"] # None /\ Less(Val(valMin["A"]), initBest["A"])
           THEN Val(valMin["A"]) ELSE initBest["A"]

BestStep ==
    /\ ~Less(Best, Best')
    /\ (Best' # Best \/ saved' # <<>>) => FinishReturned(FALSE)'

\* C10: best_validation_loss is always the least of the value given at
\* construction and the mean validation losses computed so far; it never
\* increases, only a validation finish_epoch changes it, and no other call
\* writes a checkpoint.
C10_BestIsRunningMinimum == []BestIsMin /\ [][BestStep]_vars

\* a training phase finished with a mean below the best, after a validation
\* phase has set the best
C10_Witness ==
    /\ FinishReturned(TRUE)
    /\ Less(Loss(TRUE), Best)
    /\ valMin["A"] = Some(Num(2))
    /\ Best = Num(2)
    /\ saved = <<>>

\* ------------------------------------------------- two trackers side by side
\* Both trackers are built, called in any order, with or without a
\* start_epoch first, and built anew; MaxLog cuts the exploration, and a
\* phase that was finished is started again before it is touched again.
InstanceSamples == {<<Num(1), Some(Num(2))>>, <<Num(1), None>>}

\* A is built with or without accuracy tracking, B with the defaults
InstanceArgs(t) ==
    IF t = "A" THEN CtorArgs({Num(DefaultBest)}) ELSE {DefaultCtor}

InitInstances ==
    \E a \in InstanceArgs("A") :
        InitWith([t \in Trackers |-> IF t = "A" THEN a ELSE DefaultCtor])

Construct ==
    /\ \E t \in Trackers : \E a \in InstanceArgs(t) :
            Constructed(t, 0, a.track_accuracy, a.best_validation_loss)
    /\ UNCHANGED driverVars

StartEither ==
    /\ \E t \in Trackers, train \in BOOLEAN : Started(t, train)
    /\ UNCHANGED driverVars

RecordEither ==
    /\ TotalLog + 1 < MaxLog
    /\ \E t \in Trackers, train \in BOOLEAN, s \in InstanceSamples :
            /\ Unfinished(t, train)
            /\ Recorded(t, train, 1, s[1], s[2])
    /\ UNCHANGED driverVars

FinishEither ==
    /\ TotalLog + 1 < MaxLog
    /\ \E t \in Trackers, train \in BOOLEAN :
            /\ Unfinished(t, train)
            /\ Finished(t, train, 1, 2)
    /\ UNCHANGED driverVars

NextInstances == Construct \/ StartEither \/ RecordEither \/ FinishEither

SpecInstances == InitInstances /\ [][NextInstances]_vars

\* what a caller can read on tracker t
Fields(t) ==
    [epoch |-> obj[t].epoch,
     best_validation_loss |-> obj[t].best_validation_loss,
     average_training_loss |-> Get(t, "average_training_loss"),
     average_validation_loss |-> Get(t, "average_validation_loss"),
     average_training_acc |-> Get(t, "average_training_acc"),
     average_validation_acc |-> Get(t, "average_validation_acc")]

\* C8: a call on one tracker, with or without a start_epoch before it, leaves
\* the accumulators, the epoch and the best loss read on the other tracker as
\* they were, and a tracker built afterwards starts with all four
\* accumulators at zero.
OtherUntouched ==
    /\ \A t \in Trackers : t # last'.t => Fields(t)' = Fields(t)
    /\ \A t \in Trackers :
          (last'.op = "__init__" /\ last'.t = t) =>
              \A a \in AccNames : Get(t, a)' = Zero

C8_InstancesIndependent == [][OtherUntouched]_vars

\* A has recorded a batch and finished a phase that was never started; B,
\* built anew since, reads zero
C8_Witness ==
    /\ last.op = "__init__"
    /\ last.t = "B"
    /\ ~opened["A"][FALSE]
    /\ log["A"][FALSE] = <<BatchEvent(Num(1), Some(Num(2))), FinishEvent(2)>>
    /\ Fields("A").average_validation_loss = <<1, 2>>
    /\ Fields("A").average_validation_acc = Num(1)
    /\ Fields("B").average_validation_loss = Zero
    /\ Fields("B").average_validation_acc = Zero

\* ------------------------------------------------------------- train_epoch
\* an iterator of n batches; a batch is known by its position
Iter(n) == [k \in 1..n |-> k]

\* what the processor does with a batch: it raises (None) or returns the
\* batch's loss, with its accuracy when the tracker tracks accuracy
ProcOutcomes(track_accuracy) == {None} \cup {Some(s) : s \in Samples(track_accuracy)}

Ev(ev, train, n) == [ev |-> ev, train |-> train, n |-> n]

Progress == obj[Val(frame.progress)]

\* mutant: the model is switched to training mode before progress is looked at
TrainEpoch_late ==
    /\ pc = "idle"
    /\ exc = "none"
    /\ \E epoch \in Epochs \cap {frame.epoch + 1}, nt \in 0..MaxBatches,
          nv \in {None} \cup {Some(Iter(n)) : n \in 0..MaxBatches},
          progress \in {None, Some("A")} :
            /\ frame' = [epoch |-> epoch, train_iterator |-> Iter(nt),
                         valid_iterator |-> nv, progress |-> progress, i |-> 0,
                         entry |-> <<obj["A"].best_validation_loss,
                                     Get("A", LossName(FALSE)),
                                     Get("A", AccName(FALSE))>>]
            /\ last' = Call("train_epoch", "A", TRUE, epoch, nt)
            /\ IF progress = None
               THEN exc' = "AssertionError" /\ pc' = "idle"
               ELSE exc' = "none" /\ pc' = "start_train"
    /\ mode' = "train"
    /\ trace' = <<Ev("model.train", None, 0)>>
    /\ saved' = <<>>
    /\ UNCHANGED <<cls, obj>>
    /\ UNCHANGED histVars

\* The call, up to the assertion of line 65.  The caller trains the epochs in
\* order and stops at the first call that raises.
TrainEpoch ==
    /\ pc = "idle"
    /\ exc = "none"
    /\ \E epoch \in Epochs \cap {frame.epoch + 1}, nt \in 0..MaxBatches,
          nv \in {None} \cup {Some(Iter(n)) : n \in 0..MaxBatches},
          progress \in {None, Some("A")} :
            /\ frame' = [epoch |-> epoch, train_iterator |-> Iter(nt),
                         valid_iterator |-> nv, progress |-> progress, i |-> 0,
                         entry |-> <<obj["A"].best_validation_loss,
                                     Get("A", LossName(FALSE)),
                                     Get("A", AccName(FALSE))>>]
            /\ last' = Call("train_epoch", "A", TRUE, epoch, nt)
            /\ IF progress = None
               THEN exc' = "AssertionError" /\ pc' = "idle"
               ELSE exc' = "none" /\ pc' = "model.train"
    /\ trace' = <<>>
    /\ saved' = <<>>
    /\ UNCHANGED <<cls, obj, mode>>
    /\ UNCHANGED histVars

\* line 67: model = model.train()
ModelTrain ==
    /\ pc = "model.train"
    /\ mode' = "train"
    /\ trace' = Append(trace, Ev("model.train", None, 0))
    /\ last' = Call("model.train", "A", TRUE, frame.epoch, 0)
    /\ pc' = "start_train"
    /\ UNCHANGED <<cls, obj, exc, saved, frame>>
    /\ UNCHANGED histVars

\* lines 68 and 84: progress.start_epoch(train)
DriverStart(train, at, to) ==
    /\ pc = at
    /\ StartEpochCall(Val(frame.progress), train)
    /\ trace' = Append(trace, Ev("start_epoch", Some(train), 0))
    /\ frame' = [frame EXCEPT !.i = 0]
    /\ pc' = to
    /\ UNCHANGED mode
    /\ UNCHANGED histVars

\* the `train` argument the loop body passes to the processor: stated when
\* accuracy is tracked (lines 71, 87), left out otherwise (lines 74, 90)
ProcessorFlag(track_accuracy, train) ==
    IF track_accuracy THEN Some(train) ELSE None

\* lines 69-75 and 85-91, one iteration: the processor is called on the next
\* batch and its result is handed to update_progress
DriverBatch(train, at, iterator) ==
    /\ pc = at
    /\ frame.i < Len(iterator)
    /\ LET batch == iterator[frame.i + 1]
           called == Append(trace, Ev("processor",
                                      ProcessorFlag(Progress.track_accuracy, train),
                                      batch))
       IN  \E out \in ProcOutcomes(Progress.track_accuracy) :
             IF out = None \/ (Progress.track_accuracy /\ Val(out)[2] = None)
             THEN \* the processor (or the unpacking of its result) raises
                  /\ exc' = "ProcessorError"
                  /\ saved' = <<>>
                  /\ last' = Call("processor", Val(frame.progress), train, frame.epoch, batch)
                  /\ trace' = called
                  /\ pc' = "idle"
                  /\ UNCHANGED <<cls, obj, frame>>
             ELSE /\ UpdateProgressCall(Val(frame.progress), train, frame.epoch,
                                        Val(out)[1], Val(out)[2])
                  /\ trace' = Append(called, Ev("update_progress", Some(train), batch))
                  /\ frame' = [frame EXCEPT !.i = @ + 1]
                  /\ pc' = at
    /\ UNCHANGED mode
    /\ UNCHANGED histVars

\* mutant: the training phase is left without finish_epoch
DriverFinish_skipped(train, at, iterator, to) ==
    /\ pc = at
    /\ frame.i = Len(iterator)
    /\ IF train
       THEN /\ last' = Call("skip", Val(frame.progress), train, frame.epoch, 0)
            /\ pc' = to
            /\ UNCHANGED <<cls, obj, exc, saved, trace>>
       ELSE /\ FinishEpochCall(Val(frame.progress), train, frame.epoch, Len(iterator))
            /\ trace' = Append(trace, Ev("finish_epoch", Some(train), Len(iterator)))
                        \o [k \in 1..Len(saved') |-> Ev("torch.save", Some(train), 0)]
            /\ pc' = IF exc' = "none" THEN to ELSE "idle"
    /\ UNCHANGED <<frame, mode>>
    /\ UNCHANGED histVars

\* lines 77 and 93, after the loop has used up the iterator:
\* progress.finish_epoch(train, epoch, model, len(iterator)); the report that
\* follows is printed only
DriverFinish(train, at, iterator, to) ==
    /\ pc = at
    /\ frame.i = Len(iterator)
    /\ FinishEpochCall(Val(frame.progress), train, frame.epoch, Len(iterator))
    /\ trace' = Append(trace, Ev("finish_epoch", Some(train), Len(iterator)))
                \o [k \in 1..Len(saved') |-> Ev("torch.save", Some(train), 0)]
    /\ pc' = IF exc' = "none" THEN to ELSE "idle"
    /\ UNCHANGED <<frame, mode>>
    /\ UNCHANGED histVars

StartTrain == DriverStart(TRUE, "start_train", "train_loop")

TrainBatch == DriverBatch(TRUE, "train_loop", frame.train_iterator)

FinishTrain == DriverFinish(TRUE, "train_loop", frame.train_iterator, "valid?")

\* line 82, valid_iterator is None: the call returns
NoValidation ==
    /\ pc = "valid?"
    /\ frame.valid_iterator = None
    /\ pc' = "idle"
    /\ last' = Call("return", "A", TRUE, frame.epoch, 0)
    /\ UNCHANGED <<cls, obj, exc, saved, frame, mode, trace>>
    /\ UNCHANGED histVars

\* lines 82-83: model = model.eval()
ModelEval ==
    /\ pc = "valid?"
    /\ frame.valid_iterator # None
    /\ mode' = "eval"
    /\ trace' = Append(trace, Ev("model.eval", None, 0))
    /\ last' = Call("model.eval", "A", FALSE, frame.epoch, 0)
    /\ pc' = "start_valid"
    /\ UNCHANGED <<cls, obj, exc, saved, frame>>
    /\ UNCHANGED histVars

StartValid == DriverStart(FALSE, "start_valid", "valid_loop")

ValidBatch == DriverBatch(FALSE, "valid_loop", Val(frame.valid_iterator))

FinishValid == DriverFinish(FALSE, "valid_loop", Val(frame.valid_iterator), "idle")

\* Epoch after epoch on tracker A, which was built with or without accuracy
\* tracking and with the default or a resumed best loss.
InitEpoch ==
    \E a \in CtorArgs(InitialBests) :
        InitWith([t \in Trackers |-> IF t = "A" THEN a ELSE DefaultCtor])

NextEpoch ==
    \/ TrainEpoch
    \/ ModelTrain
    \/ StartTrain
    \/ TrainBatch
    \/ FinishTrain
    \/ NoValidation
    \/ ModelEval
    \/ StartValid
    \/ ValidBatch
    \/ FinishValid

SpecEpoch == InitEpoch /\ [][NextEpoch]_vars

\* -------------------------------------------------- properties of the driver
\* a call of train_epoch has been made
Called == last.op # "__init__"

\* the call in progress, or the last one, has returned (it did not raise)
Returned == pc = "idle" /\ Called /\ exc = "none"

Saves(tr) == {k \in 1..Len(tr) : tr[k].ev = "torch.save"}

EntryBest == frame.entry[1]
EntryValid == <<frame.entry[2], frame.entry[3]>>

\* C3: finish_epoch right after start_epoch with num_batches = 0 raises
\* instead of returning, in the training and in the validation phase; nothing
\* is written, and the best loss and the accumulators are as before the call.
\* train_epoch over an iterator of no batches ends with that error: it returns
\* only when every iterator it was given had a batch.
ZeroBatchesStep ==
    (last'.op = "finish_epoch" /\ last'.n = 0) =>
        /\ last.op = "start_epoch"
        /\ exc' = "ZeroDivisionError"
        /\ pc' = "idle"
        /\ saved' = <<>>
        /\ Saves(trace') = {}
        /\ Best' = Best
        /\ \A train \in BOOLEAN : Loss(train)' = Loss(train) /\ Acc(train)' = Acc(train)

NoMeanOfNothing ==
    Returned =>
        /\ Len(frame.train_iterator) > 0
        /\ frame.valid_iterator # None => Len(Val(frame.valid_iterator)) > 0

C3_ZeroBatchesRaise == []NoMeanOfNothing /\ [][ZeroBatchesStep]_vars

\* the validation iterator is empty: the validation sums are zero, below the
\* best loss, and yet nothing is written
C3_Witness ==
    /\ pc = "idle"
    /\ exc = "ZeroDivisionError"
    /\ last.op = "finish_epoch"
    /\ ~last.train
    /\ Len(frame.train_iterator) = 2
    /\ Loss(FALSE) = Zero
    /\ Less(Loss(FALSE), Best)
    /\ saved = <<>>

\* C5: train_epoch called without a progress fails at once: the model's mode
\* is not switched, the processor is not called, no tracker is touched and
\* nothing is written; nothing of train_epoch runs without a progress.
NoProgressStep ==
    (last'.op = "train_epoch" /\ frame'.progress = None) =>
        /\ exc' = "AssertionError"
        /\ pc' = "idle"
        /\ mode' = mode
        /\ trace' = <<>>
        /\ obj' = obj
        /\ cls' = cls
        /\ saved' = <<>>

C5_FailsWithoutProgress ==
    [](pc # "idle" => frame.progress # None) /\ [][NoProgressStep]_vars

\* the second epoch is called without a progress; the model is still in the
\* evaluation mode the first epoch left it in
C5_Witness ==
    /\ exc = "AssertionError"
    /\ pc = "idle"
    /\ frame.progress = None
    /\ frame.epoch = 1
    /\ mode = "eval"
    /\ trace = <<>>

\* the k-th event of the trace happens in the training loop
InTraining(tr, k) == \A j \in 1..k : tr[j].ev # "model.eval"

\* the batches the processor was called on in a phase, in order
BatchesOf(tr, train) ==
    LET idx == {k \in 1..Len(tr) : tr[k].ev = "processor" /\ InTraining(tr, k) = train}
    IN  [b \in 1..Cardinality(idx) |->
            tr[CHOOSE k \in idx : Cardinality({j \in idx : j <= k}) = b].n]

\* C7 as claimed: the processor is called once per batch, and every call
\* states the phase: train = True on a training batch, train = False on a
\* validation batch, whether or not accuracy is tracked.
C7_PhaseFlagExplicit ==
    /\ \A k \in 1..Len(trace) :
          trace[k].ev = "processor" => trace[k].train = Some(InTraining(trace, k))
    /\ Returned =>
          /\ BatchesOf(trace, TRUE) = frame.train_iterator
          /\ frame.valid_iterator # None =>
                BatchesOf(trace, FALSE) = Val(frame.valid_iterator)

\* the events of one phase over n batches, the processor's flag left aside
RECURSIVE Batches(_, _)
Batches(train, n) ==
    IF n = 0 THEN <<>>
    ELSE Batches(train, n - 1)
         \o <<Ev("processor", None, n), Ev("update_progress", Some(train), n)>>

Phase(train, n) ==
    <<Ev("start_epoch", Some(train), 0)>> \o Batches(train, n)
    \o <<Ev("finish_epoch", Some(train), n)>>

FullEpoch(nt, nv) ==
    <<Ev("model.train", None, 0)>> \o Phase(TRUE, nt)
    \o <<Ev("model.eval", None, 0)>> \o Phase(FALSE, nv)

Unflagged(tr) ==
    [k \in 1..Len(tr) |-> IF tr[k].ev = "processor" THEN Ev("processor", None, tr[k].n)
                          ELSE tr[k]]

\* a checkpoint is written only as the last step of a complete epoch
WriteEndsEpoch ==
    Saves(trace) # {} =>
        /\ frame.valid_iterator # None
        /\ Unflagged(trace) =
              FullEpoch(Len(frame.train_iterator), Len(Val(frame.valid_iterator)))
              \o <<Ev("torch.save", Some(FALSE), 0)>>
        /\ mode = "eval"
        /\ Returned

NoValidationRun == Called /\ frame.progress # None /\ frame.valid_iterator = None

RaisedIn(train) ==
    /\ pc = "idle"
    /\ exc = "ProcessorError"
    /\ last.train = train

\* after a raise of the processor nothing more is done by the call
RaiseEndsCall ==
    (pc = "idle" /\ exc = "ProcessorError") =>
        /\ trace[Len(trace)].ev = "processor"
        /\ \A k \in 1..(Len(trace) - 1) :
              trace[k].ev = "processor" => trace[k + 1].ev = "update_progress"

\* C9 as claimed: a checkpoint is written only as the last step of the
\* validation phase of a complete epoch; with no valid_iterator, or when the
\* processor raises on a batch, nothing is written and the best loss and the
\* validation accumulators are as they were when train_epoch was called.
C9_ValidationUntouchedOnAnyRaise ==
    /\ WriteEndsEpoch
    /\ RaiseEndsCall
    /\ (NoValidationRun \/ RaisedIn(TRUE) \/ RaisedIn(FALSE)) =>
          /\ Saves(trace) = {}
          /\ Best = EntryBest
          /\ <<Loss(FALSE), Acc(FALSE)>> = EntryValid

\* C9: a checkpoint is written only as the last step of the validation phase
\* of a complete epoch; with no valid_iterator, or when the processor raises
\* on a batch, nothing is written and the best loss is as it was when
\* train_epoch was called; the validation accumulators are as they were when
\* there is no valid_iterator or the processor raises on a training batch.
C9_WriteOnlyAfterCompleteEpoch ==
    /\ WriteEndsEpoch
    /\ RaiseEndsCall
    /\ (NoValidationRun \/ RaisedIn(TRUE) \/ RaisedIn(FALSE)) =>
          /\ Saves(trace) = {}
          /\ Best = EntryBest
    /\ (NoValidationRun \/ RaisedIn(TRUE)) =>
          <<Loss(FALSE), Acc(FALSE)>> = EntryValid

\* the second epoch improves on the first and writes, after two training and
\* two validation batches
C9_Witness ==
    /\ Returned
    /\ frame.epoch = 1
    /\ Saves(trace) = {Len(trace)}
    /\ Len(frame.train_iterator) = 2
    /\ frame.valid_iterator = Some(Iter(2))
    /\ EntryBest = Num(2)
    /\ Best = <<3, 2>>
====
